---- MODULE Spec2Model ----
(***************************************************************************)
(* Model of python_server/flask_app.py: the POST /generate-learning-path   *)
(* handler (generate_learning_path), its upstream call (query_huggingface) *)
(* and the match estimator (calculate_match_percentage).                   *)
(*                                                                         *)
(* Python strings are TLA+ strings; JSON / Python values are tagged        *)
(* records of one shape, so that values of different Python types can be   *)
(* compared.                                                               *)
(***************************************************************************)
EXTENDS Integers, Sequences, FiniteSets, TLC

VARIABLES
    pc,             \* position of the handler: "idle", "upstream", "responded"
    data,           \* request.json of the request being handled
    prompt,         \* the prompt handed to query_huggingface
    hf_calls,       \* calls of query_huggingface made for this request
    upstream,       \* what the upstream call did: nothing yet, a reply, an error
    response,       \* the HTTP response of the handler
    earlier,        \* an earlier successful request: its payload and percentage
    user_skills,    \* calculate_match_percentage: argument user_skills
    target_role,    \* calculate_match_percentage: argument target_role
    keywords,       \* calculate_match_percentage: local keywords
    matches,        \* calculate_match_percentage: local matches
    percentage,     \* calculate_match_percentage: local percentage (unclamped)
    result          \* calculate_match_percentage: returned value

vars == <<pc, data, prompt, hf_calls, upstream, response, earlier,
          user_skills, target_role, keywords, matches, percentage, result>>

handlerVars == <<pc, data, prompt, hf_calls, upstream, response, earlier>>
calcVars == <<user_skills, target_role, keywords, matches, percentage, result>>

---------------------------------------------------------------------------
(* Bounds of the model.                                                    *)

\* longest skill list given to calculate_match_percentage on its own
MaxSkills == 3
\* longest skill list in a request to the handler
MaxReqSkills == 2

---------------------------------------------------------------------------
(* Python str operations.                                                  *)

UpperCase == "ABCDEFGHIJKLMNOPQRSTUVWXYZ"
LowerCase == "abcdefghijklmnopqrstuvwxyz"

\* str.lower() on one character
LowerChar(c) ==
    IF \E i \in 1..Len(UpperCase) : SubSeq(UpperCase, i, i) = c
    THEN LET i == CHOOSE j \in 1..Len(UpperCase) : SubSeq(UpperCase, j, j) = c
         IN  SubSeq(LowerCase, i, i)
    ELSE c

RECURSIVE Lower(_)
\* str.lower()
Lower(s) ==
    IF Len(s) = 0 THEN ""
    ELSE LowerChar(SubSeq(s, 1, 1)) \o Lower(SubSeq(s, 2, Len(s)))

\* a mutant of StrIn: equality instead of containment
StrInEqual(k, us) == k = us

\* the str operator `k in us`: k occurs in us as a contiguous substring
StrIn(k, us) ==
    \E i \in 1..(Len(us) - Len(k) + 1) : SubSeq(us, i, i + Len(k) - 1) = k

RECURSIVE Join(_, _)
\* sep.join(parts)
Join(sep, parts) ==
    IF Len(parts) = 0 THEN ""
    ELSE IF Len(parts) = 1 THEN parts[1]
    ELSE parts[1] \o sep \o Join(sep, Tail(parts))

---------------------------------------------------------------------------
(* JSON / Python values: None, str, int, bool, list, dict.  A dict is a    *)
(* set of <<key, value>> pairs with distinct keys.                         *)

JNull == [t |-> "null"]
JStr(s) == [t |-> "str", s |-> s]
JNum(n) == [t |-> "int", n |-> n]
JBool(b) == [t |-> "bool", b |-> b]
JList(l) == [t |-> "list", l |-> l]
JDict(d) == [t |-> "dict", d |-> d]

\* key in d
HasKey(d, key) == \E p \in d : p[1] = key

\* d[key], for a key that d has
Item(d, key) == (CHOOSE p \in d : p[1] = key)[2]

\* dict.get(key, default)
Get(d, key, default) == IF HasKey(d, key) THEN Item(d, key) ELSE default

\* Python truth value: `not v` is ~Truthy(v)
Truthy(v) ==
    CASE v.t = "null" -> FALSE
      [] v.t = "str"  -> Len(v.s) > 0
      [] v.t = "int"  -> v.n # 0
      [] v.t = "bool" -> v.b
      [] v.t = "list" -> Len(v.l) > 0
      [] v.t = "dict" -> v.d # {}

\* whether len(v) is defined: it raises TypeError on None, int and bool
HasLen(v) == v.t \in {"str", "list", "dict"}

---------------------------------------------------------------------------
(* calculate_match_percentage (the match estimator).                       *)

\* the role -> keywords table
relevant_keywords ==
    ("Backend Developer" :>
        <<"node.js", "python", "sql", "api", "database", "git">>) @@
    ("Frontend Developer" :>
        <<"javascript", "react", "html", "css", "figma", "git">>) @@
    ("AI Engineer" :>
        <<"python", "machine learning", "pytorch", "tensorflow",
          "data analysis">>) @@
    ("UI/UX Designer" :>
        <<"figma", "design", "user research", "prototyping">>)

\* skill names given to the match estimator on its own
SkillNames ==
    {"Figma", "User Research", "Git", "GitHub REST API", "Python/Node.js",
     "MySQL Database", "PyTorch/TensorFlow", "Machine Learning Data Analysis",
     "JavaScript React", "Figma to HTML/CSS", "Rapid Prototyping & Design",
     "Cooking"}

\* every keyword of the table and of the fallback list
AllKeywords ==
    {"git", "api"} \cup
    UNION {{relevant_keywords[r][i] : i \in 1..Len(relevant_keywords[r])} :
              r \in DOMAIN relevant_keywords}

\* Lower and StrIn evaluated once for the names and keywords of the model
lowered == {<<n, Lower(n)>> : n \in SkillNames}
contains ==
    {q : q \in {x \in AllKeywords \X {p[2] : p \in lowered} :
                    StrIn(x[1], x[2])}}

\* keywords = relevant_keywords.get(target_role, ["git", "api"])
Keywords(role) ==
    IF role \in DOMAIN relevant_keywords
    THEN relevant_keywords[role]
    ELSE <<"git", "api">>

\* user_skill_names = [s['name'].lower() for s in user_skills]
UserSkillNames(skills) ==
    [i \in 1..Len(skills) |-> Item(lowered, Item(skills[i].d, "name").s)]

RECURSIVE MatchesPerSkill(_, _)
\* a mutant of Matches: one entry per (skill, keyword) pair that matches
MatchesPerSkill(kws, names) ==
    IF Len(names) = 0 THEN <<>>
    ELSE SelectSeq(kws, LAMBDA k : <<k, names[1]>> \in contains)
            \o MatchesPerSkill(kws, Tail(names))

\* matches = [k for k in keywords if any(k in us for us in user_skill_names)]
Matches(kws, names) ==
    SelectSeq(kws, LAMBDA k : \E i \in 1..Len(names) :
                                  <<k, names[i]>> \in contains)

\* a mutant of Percentage: rounds to the nearest integer instead of truncating
PercentageRounded(ms, kws) ==
    IF Len(kws) > 0 THEN (2 * 100 * Len(ms) + Len(kws)) \div (2 * Len(kws))
    ELSE 0

\* percentage = int((len(matches) / len(keywords)) * 100) if keywords else 0
\* int() truncates toward zero; for the list lengths of the table the float
\* product (m / n) * 100 truncates to the same integer as the exact quotient.
Percentage(ms, kws) ==
    IF Len(kws) > 0 THEN (Len(ms) * 100) \div Len(kws) ELSE 0

Min(a, b) == IF a <= b THEN a ELSE b
Max(a, b) == IF a >= b THEN a ELSE b

\* a mutant of Clamp: no clamping
ClampNone(p) == p

\* min(max(percentage, 10), 95)
Clamp(p) == Min(Max(p, 10), 95)

\* the whole function
calculate_match_percentage(skills, role) ==
    LET kws == Keywords(role)
        names == UserSkillNames(skills)
        ms == Matches(kws, names)
    IN  Clamp(Percentage(ms, kws))

---------------------------------------------------------------------------
(* Inputs.                                                                 *)

\* target roles: the four of the table and one that is not in it
Roles ==
    {"Backend Developer", "Frontend Developer", "AI Engineer",
     "UI/UX Designer", "Data Scientist"}

\* a skill object {"name": n}
Skill(n) == JDict({<<"name", JStr(n)>>})

\* the name of a skill object
NameOf(s) == Item(s.d, "name").s

---------------------------------------------------------------------------
(* str() of Python values and of exceptions.                               *)

RECURSIVE Decimal(_)
\* str(n) for an int n >= 0
Decimal(n) ==
    IF n < 10 THEN SubSeq("0123456789", n + 1, n + 1)
    ELSE Decimal(n \div 10) \o Decimal(n % 10)

RECURSIVE PyRepr(_)
RECURSIVE ReprItems(_)
RECURSIVE ReprPairs(_)

\* repr(v): as str(v), but a str is quoted
PyRepr(v) ==
    CASE v.t = "null" -> "None"
      [] v.t = "str"  -> "'" \o v.s \o "'"
      [] v.t = "int"  -> Decimal(v.n)
      [] v.t = "bool" -> IF v.b THEN "True" ELSE "False"
      [] v.t = "list" -> "[" \o ReprItems(v.l) \o "]"
      [] v.t = "dict" -> "{" \o ReprPairs(v.d) \o "}"

\* the items of a list, as repr() of a list shows them
ReprItems(l) ==
    IF Len(l) = 0 THEN ""
    ELSE IF Len(l) = 1 THEN PyRepr(l[1])
    ELSE PyRepr(l[1]) \o ", " \o ReprItems(Tail(l))

\* the items of a dict, as repr() of a dict shows them
ReprPairs(d) ==
    IF d = {} THEN ""
    ELSE LET p == CHOOSE q \in d : TRUE
             rest == d \ {p}
         IN  "'" \o p[1] \o "': " \o PyRepr(p[2]) \o
             (IF rest = {} THEN "" ELSE ", " \o ReprPairs(rest))

\* str(v)
PyStr(v) == IF v.t = "str" THEN v.s ELSE PyRepr(v)

\* an exception: its type and the arguments it was raised with
Exc(type, args) == [type |-> type, args |-> args]

\* str(e): empty without arguments, the argument when there is one
ExcStr(e) == IF Len(e.args) = 0 THEN "" ELSE e.args[1]

\* type(v).__name__
TypeName(v) ==
    CASE v.t = "null" -> "NoneType"
      [] v.t = "list" -> "list"
      [] v.t = "dict" -> "dict"
      [] OTHER -> v.t

---------------------------------------------------------------------------
(* Requests, upstream replies and upstream errors.                         *)

\* skill names in requests to the handler
RequestSkillNames == {"Figma", "User Research", "GitHub REST API"}

\* the sequences over S of length lo..hi
SeqsOf(S, lo, hi) == UNION {[1..k -> S] : k \in lo..hi}

\* either no such key, or the key with one of the values
Field(key, values) == {{}} \cup {{<<key, v>>} : v \in values}

SkillsValues ==
    {JNull, JStr(""), JList(<<>>)} \cup
    {JList(l) : l \in SeqsOf({Skill(n) : n \in RequestSkillNames},
                             1, MaxReqSkills)}

InterestValues == {JNull, JStr(""), JStr("product design")}

RoleValues == {JNull, JStr(""), JStr("UI/UX Designer"), JStr("Data Scientist")}

\* the JSON bodies of the requests
Requests ==
    {s \cup i \cup r : s \in Field("skills", SkillsValues),
                       i \in Field("interest", InterestValues),
                       r \in Field("target_role", RoleValues)}

\* what response.json() of the upstream can be
Replies ==
    {JList(<<JDict({<<"generated_text", JStr("1. Learn design basics")>>})>>),
     JList(<<JDict({<<"generated_text", JStr("Roadmap A")>>}),
             JDict({<<"generated_text", JStr("Roadmap B")>>})>>),
     JList(<<JDict({})>>),
     JList(<<>>),
     JDict({<<"error", JStr("Model is loading")>>}),
     JStr("Service Unavailable"),
     JNum(503),
     JNull,
     JList(<<JStr("1. Learn design basics")>>)}

\* what requests.post(...) and response.json() can raise
UpstreamErrors ==
    {Exc("ConnectionError", <<"Max retries exceeded with url">>),
     Exc("JSONDecodeError", <<"Expecting value: line 1 column 1 (char 0)">>),
     Exc("MemoryError", <<>>)}

---------------------------------------------------------------------------
(* Responses.                                                              *)

NoResponse == [status |-> 0]

\* jsonify(body), status
Json(status, body) == [status |-> status, body |-> body]

\* an exception that leaves the view function: the server's own 500 page,
\* which is not a JSON body of the handler
Unhandled(e) == [status |-> 500, raised |-> e]

---------------------------------------------------------------------------
(* generate_learning_path (the request handler) and query_huggingface.     *)

NoUpstream == [kind |-> "none"]
NoEarlier == [kind |-> "none"]

\* the f-string of the prompt: the parts that depend on the request
Prompt(skills, interest, role) ==
    "User Current Skills: "
        \o Join(", ", [i \in 1..Len(skills.l) |-> NameOf(skills.l[i])])
        \o " User Interest: " \o interest.s
        \o " Target Job Role: " \o role.s

\* whether [s['name'] for s in skills] or ', '.join(...) raises
PromptRaises(skills) ==
    \/ skills.t # "list"
    \/ \E i \in 1..Len(skills.l) :
          \/ skills.l[i].t # "dict"
          \/ ~HasKey(skills.l[i].d, "name")
          \/ Item(skills.l[i].d, "name").t # "str"

Init ==
    /\ pc = "idle"
    /\ data = {}
    /\ prompt = ""
    /\ hf_calls = 0
    /\ upstream = NoUpstream
    /\ response = NoResponse
    /\ earlier = NoEarlier
    /\ user_skills = <<>>
    /\ target_role = ""
    /\ keywords = <<>>
    /\ matches = <<>>
    /\ percentage = 0
    /\ result = 0

\* a request arrives: the handler runs up to the call of query_huggingface
HandleRequest ==
    /\ pc = "idle"
    /\ \E d \in Requests :
        LET skills == Get(d, "skills", JList(<<>>))
            interest == Get(d, "interest", JStr(""))
            role == Get(d, "target_role", JStr(""))
        IN  /\ data' = d
            /\ upstream' = NoUpstream
            /\ IF ~HasLen(skills)
               THEN \* the log line: len(skills) raises, outside any try
                    /\ response' = Unhandled(Exc("TypeError",
                          <<"object of type '" \o TypeName(skills)
                                \o "' has no len()">>))
                    /\ pc' = "responded"
                    /\ UNCHANGED <<prompt, hf_calls>>
               ELSE IF ~Truthy(skills) \/ ~Truthy(interest) \/ ~Truthy(role)
               THEN /\ response' = Json(400,
                          {<<"error", JStr("Missing required data")>>})
                    /\ pc' = "responded"
                    /\ UNCHANGED <<prompt, hf_calls>>
               ELSE IF PromptRaises(skills)
               THEN \* the prompt is built outside the try; the skills of
                    \* Requests are objects with a str name, as the
                    \* handler's contract has them, and never raise here
                    /\ response' = Unhandled(Exc("TypeError", <<>>))
                    /\ pc' = "responded"
                    /\ UNCHANGED <<prompt, hf_calls>>
               ELSE /\ prompt' = Prompt(skills, interest, role)
                    /\ hf_calls' = hf_calls + 1
                    /\ response' = NoResponse
                    /\ pc' = "upstream"
    /\ UNCHANGED <<earlier, calcVars>>

\* a mutant of UpstreamReturns: the percentage is computed over the skills
\* of this request and those left over from an earlier one
UpstreamReturnsLeftover(r) ==
    /\ pc = "upstream"
    /\ upstream' = [kind |-> "reply", value |-> r]
    /\ pc' = "responded"
    /\ LET skills == Item(data, "skills")
           role == Item(data, "target_role")
           left == IF earlier.kind = "success"
                   THEN Item(earlier.data, "skills").l ELSE <<>>
       IN  IF r.t = "list" /\ Len(r.l) > 0 /\ r.l[1].t # "dict"
           THEN response' = Json(500,
                    {<<"success", JBool(FALSE)>>,
                     <<"error", JStr("'" \o TypeName(r.l[1])
                          \o "' object has no attribute 'get'")>>})
           ELSE response' = Json(200,
                    {<<"success", JBool(TRUE)>>,
                     <<"learning_path",
                       IF r.t = "list" /\ Len(r.l) > 0
                       THEN Get(r.l[1].d, "generated_text", JStr(""))
                       ELSE JStr(PyStr(r))>>,
                     <<"match_percentage",
                       JNum(calculate_match_percentage(left \o skills.l,
                                                       role.s))>>,
                     <<"target_role", role>>})
    /\ UNCHANGED <<data, prompt, hf_calls, earlier, calcVars>>

\* query_huggingface returns the upstream's reply r: the handler shapes it,
\* computes the percentage and answers
UpstreamReturns(r) ==
    /\ pc = "upstream"
    /\ upstream' = [kind |-> "reply", value |-> r]
    /\ pc' = "responded"
    /\ LET skills == Item(data, "skills")
           role == Item(data, "target_role")
       IN  IF r.t = "list" /\ Len(r.l) > 0
           THEN IF r.l[1].t # "dict"
                THEN \* hf_response[0].get raises AttributeError, caught below
                     response' = Json(500,
                        {<<"success", JBool(FALSE)>>,
                         <<"error", JStr("'" \o TypeName(r.l[1])
                              \o "' object has no attribute 'get'")>>})
                ELSE response' = Json(200,
                        {<<"success", JBool(TRUE)>>,
                         <<"learning_path",
                           Get(r.l[1].d, "generated_text", JStr(""))>>,
                         <<"match_percentage",
                           JNum(calculate_match_percentage(skills.l, role.s))>>,
                         <<"target_role", role>>})
           ELSE response' = Json(200,
                    {<<"success", JBool(TRUE)>>,
                     <<"learning_path", JStr(PyStr(r))>>,
                     <<"match_percentage",
                       JNum(calculate_match_percentage(skills.l, role.s))>>,
                     <<"target_role", role>>})
    /\ UNCHANGED <<data, prompt, hf_calls, earlier, calcVars>>

\* a mutant of UpstreamRaises: the call is made once more after an error
UpstreamRaisesRetry(e) ==
    /\ pc = "upstream"
    /\ hf_calls < 2
    /\ hf_calls' = hf_calls + 1
    /\ upstream' = [kind |-> "raise", error |-> e]
    /\ UNCHANGED <<pc, data, prompt, response, earlier, calcVars>>

\* a mutant of UpstreamRaises: a fixed text instead of the error's own
UpstreamRaisesFixedText(e) ==
    /\ pc = "upstream"
    /\ upstream' = [kind |-> "raise", error |-> e]
    /\ pc' = "responded"
    /\ response' = Json(500, {<<"success", JBool(FALSE)>>,
                              <<"error", JStr("Upstream request failed")>>})
    /\ UNCHANGED <<data, prompt, hf_calls, earlier, calcVars>>

\* query_huggingface raises e: the except clause answers
UpstreamRaises(e) ==
    /\ pc = "upstream"
    /\ upstream' = [kind |-> "raise", error |-> e]
    /\ pc' = "responded"
    /\ response' = Json(500, {<<"success", JBool(FALSE)>>,
                              <<"error", JStr(ExcStr(e))>>})
    /\ UNCHANGED <<data, prompt, hf_calls, earlier, calcVars>>

UpstreamReply == \E r \in Replies : UpstreamReturns(r)

UpstreamError == \E e \in UpstreamErrors : UpstreamRaises(e)

\* the response is sent and the handler is ready for the next request;
\* a successful request may be the one remembered in `earlier`
NextRequest ==
    /\ pc = "responded"
    /\ pc' = "idle"
    /\ data' = {}
    /\ prompt' = ""
    /\ hf_calls' = 0
    /\ upstream' = NoUpstream
    /\ response' = NoResponse
    /\ \/ earlier' = earlier
       \/ /\ response.status = 200
          /\ earlier' = [kind |-> "success", data |-> data,
                         learning_path |-> Item(response.body, "learning_path"),
                         match_percentage |->
                             Item(response.body, "match_percentage")]
    /\ UNCHANGED calcVars

Next ==
    \/ HandleRequest
    \/ UpstreamReply
    \/ UpstreamError
    \/ NextRequest

Spec == Init /\ [][Next]_vars

---------------------------------------------------------------------------
(* The match estimator called on its own.                                  *)

\* one call: the locals and the returned value
Call(skills, role) ==
    LET kws == Keywords(role)
        names == UserSkillNames(skills)
        ms == Matches(kws, names)
    IN  /\ user_skills' = skills
        /\ target_role' = role
        /\ keywords' = kws
        /\ matches' = ms
        /\ percentage' = Percentage(ms, kws)
        /\ result' = calculate_match_percentage(skills, role)

CalcInit ==
    /\ pc = "called"
    /\ user_skills = <<>>
    /\ target_role \in Roles
    /\ keywords = <<>>
    /\ matches = <<>>
    /\ percentage = 0
    /\ result = 0
    /\ data = {}
    /\ prompt = ""
    /\ hf_calls = 0
    /\ upstream = NoUpstream
    /\ response = NoResponse
    /\ earlier = NoEarlier

\* the call with the arguments as they are
Calculate ==
    /\ pc = "called"
    /\ pc' = "returned"
    /\ Call(user_skills, target_role)
    /\ UNCHANGED <<data, prompt, hf_calls, upstream, response, earlier>>

\* a further call, with one more skill at the end of the list
CalculateWithAdded ==
    /\ pc = "returned"
    /\ Len(user_skills) < MaxSkills
    /\ \E n \in SkillNames : Call(Append(user_skills, Skill(n)), target_role)
    /\ UNCHANGED handlerVars

\* a further call, with two skills of the list exchanged
CalculateWithSwapped ==
    /\ pc = "returned"
    /\ \E i, j \in 1..Len(user_skills) :
          /\ i < j
          /\ Call([user_skills EXCEPT ![i] = user_skills[j],
                                      ![j] = user_skills[i]], target_role)
    /\ UNCHANGED handlerVars

\* a further call, with one skill of the list given once more
CalculateWithDuplicate ==
    /\ pc = "returned"
    /\ Len(user_skills) < MaxSkills
    /\ \E i \in 1..Len(user_skills) :
          Call(Append(user_skills, user_skills[i]), target_role)
    /\ UNCHANGED handlerVars

CalcNext ==
    \/ Calculate
    \/ CalculateWithAdded
    \/ CalculateWithSwapped
    \/ CalculateWithDuplicate

SpecCalc == CalcInit /\ [][CalcNext]_vars

---------------------------------------------------------------------------
(* Properties of the handler, checked under Spec.                          *)

\* the keys of a JSON object
Keys(d) == {p[1] : p \in d}

\* the handler has answered with a JSON body
Answered == pc = "responded" /\ "body" \in DOMAIN response

\* a required field is absent or empty: no key, null, "" or []
Absent(d, key) ==
    \/ ~HasKey(d, key)
    \/ Item(d, key) \in {JNull, JStr(""), JList(<<>>)}

MissingInput(d) ==
    Absent(d, "skills") \/ Absent(d, "interest") \/ Absent(d, "target_role")

\* the response is the success shape, for the request in `data`
IsSuccess ==
    /\ Answered
    /\ response.status = 200
    /\ Keys(response.body) =
          {"success", "learning_path", "match_percentage", "target_role"}
    /\ Item(response.body, "success") = JBool(TRUE)
    /\ Item(response.body, "match_percentage").t = "int"
    /\ HasKey(data, "target_role")
    /\ Item(response.body, "target_role") = Item(data, "target_role")

\* the response is the validation failure: 400, nothing but an error message
IsMissingInputFailure ==
    /\ Answered
    /\ response.status = 400
    /\ Keys(response.body) = {"error"}
    /\ Item(response.body, "error").t = "str"

\* the response is the upstream failure: 500, success false and an error
IsUpstreamFailure ==
    /\ Answered
    /\ response.status = 500
    /\ Keys(response.body) = {"success", "error"}
    /\ Item(response.body, "success") = JBool(FALSE)
    /\ Item(response.body, "error").t = "str"

\* C1: every request in which skills, interest or target_role is absent or
\* empty (no key, empty list, empty string, null) is answered with the
\* MissingInput failure (400, only an error message) and query_huggingface
\* is not called for it.
C1_MissingInputRejected ==
    (pc = "responded" /\ MissingInput(data)) =>
        (IsMissingInputFailure /\ hf_calls = 0)

\* C2: the match_percentage of every success response is an integer in
\* 10..95, whatever the skills and whether or not the role is in the table.
C2_PercentageInBand ==
    (Answered /\ response.status = 200) =>
        /\ HasKey(response.body, "match_percentage")
        /\ Item(response.body, "match_percentage").t = "int"
        /\ Item(response.body, "match_percentage").n \in 10..95

\* a success for a role outside the table whose raw score is 100, and one
\* in which no skill matches, occur; this one is the former
C2_Witness ==
    /\ IsSuccess
    /\ Item(data, "target_role") = JStr("Data Scientist")
    /\ Item(response.body, "match_percentage") = JNum(95)

\* C4 as stated: when the upstream call raises, the response is the
\* UpstreamFailure shape (500, success false) with a non-empty error string.
C4_NonEmptyError ==
    (pc = "responded" /\ upstream.kind = "raise") =>
        (IsUpstreamFailure /\ Len(Item(response.body, "error").s) > 0)

\* C4 amended: when the upstream call raises, the response is the
\* UpstreamFailure shape (500, success false) and its error string is the
\* textual description of the error, which is the empty string for an error
\* raised without a message and non-empty otherwise.
C4_ErrorDescription ==
    (pc = "responded" /\ upstream.kind = "raise") =>
        /\ IsUpstreamFailure
        /\ LET args == upstream.error.args
               text == Item(response.body, "error").s
           IN  IF args = <<>> THEN Len(text) = 0
               ELSE text = args[1] /\ Len(text) > 0

\* the upstream raised an error without a message and the handler answered
C4_Witness ==
    /\ pc = "responded"
    /\ upstream.kind = "raise"
    /\ upstream.error.type = "MemoryError"
    /\ IsUpstreamFailure

\* the reply is a non-empty sequence of objects
IsSequenceOfObjects(r) ==
    /\ r.t = "list"
    /\ Len(r.l) > 0
    /\ \A i \in 1..Len(r.l) : r.l[i].t = "dict"

\* C5: for a reply that is a non-empty sequence of objects the learning_path
\* is the generated_text of the first element; for every other reply (empty
\* sequence, object, string, number, null, sequence whose first element is
\* no object) the response is a success whose learning_path is the reply
\* stringified.
C5_Shaping ==
    (pc = "responded" /\ upstream.kind = "reply") =>
        LET r == upstream.value
        IN  IF IsSequenceOfObjects(r)
            THEN HasKey(r.l[1].d, "generated_text") =>
                    /\ IsSuccess
                    /\ Item(response.body, "learning_path")
                          = Item(r.l[1].d, "generated_text")
            ELSE /\ IsSuccess
                 /\ Item(response.body, "learning_path").t = "str"
                 /\ Item(response.body, "learning_path").s =
                       (CASE r.t = "null" -> "None"
                          [] r.t = "str" -> r.s
                          [] r.t = "int" /\ r.n = 503 -> "503"
                          [] r.t = "list" /\ r.l = <<>> -> "[]"
                          [] OTHER -> PyStr(r))

\* the request passed validation: all three fields are present and non-empty
PassedValidation(d) ==
    /\ HasKey(d, "skills") /\ HasKey(d, "interest") /\ HasKey(d, "target_role")
    /\ Item(d, "skills").t = "list" /\ Len(Item(d, "skills").l) > 0
    /\ Item(d, "interest").t = "str" /\ Len(Item(d, "interest").s) > 0
    /\ Item(d, "target_role").t = "str" /\ Len(Item(d, "target_role").s) > 0

C8_SamePayloadSamePercentage ==
    (IsSuccess /\ earlier.kind = "success" /\ earlier.data = data) =>
        earlier.match_percentage = Item(response.body, "match_percentage")

\* the same payload succeeded twice with different upstream replies
C8_Witness ==
    /\ IsSuccess
    /\ earlier.kind = "success"
    /\ earlier.data = data
    /\ earlier.learning_path # Item(response.body, "learning_path")
    /\ earlier.match_percentage = Item(response.body, "match_percentage")

\* C9: every request ends in exactly one of the three responses, none of
\* them partial: the success (200) with success true, learning_path,
\* match_percentage and the request's target_role; the validation failure
\* (400) with only error; the upstream failure (500) with success false and
\* error.  No failure carries a learning_path or a match_percentage.
C9_ThreeResponses ==
    pc = "responded" =>
        \/ IsSuccess
        \/ IsMissingInputFailure
        \/ IsUpstreamFailure

---------------------------------------------------------------------------
(* Properties of the match estimator, checked under SpecCalc.              *)

RECURSIVE IsSubstring(_, _)
\* k occurs in us: us starts with k, or k occurs in us without its first
\* character
IsSubstring(k, us) ==
    \/ Len(k) <= Len(us) /\ SubSeq(us, 1, Len(k)) = k
    \/ Len(us) > 0 /\ IsSubstring(k, SubSeq(us, 2, Len(us)))

\* IsSubstring evaluated once for the names and keywords of the model
substringOf ==
    {q : q \in {x \in AllKeywords \X {p[2] : p \in lowered} :
                    IsSubstring(x[1], x[2])}}

\* keyword k is a substring of at least one lower-cased name of user_skills
KeywordMatched(k) ==
    \E i \in 1..Len(user_skills) :
        <<k, Item(lowered, NameOf(user_skills[i]))>> \in substringOf

\* the number of keywords of the list in use that are matched
MatchCount == Cardinality({i \in 1..Len(keywords) : KeywordMatched(keywords[i])})

\* C3 as stated: the returned value is round(matches / total_keywords * 100)
\* clamped to 10..95.
C3_Rounded ==
    pc = "returned" =>
        LET n == Len(keywords)
            raw == (2 * 100 * MatchCount + n) \div (2 * n)
        IN  result = (IF raw < 10 THEN 10 ELSE IF raw > 95 THEN 95 ELSE raw)

\* C3 amended: the returned value is matches / total_keywords * 100 truncated
\* to an integer (not rounded: 1 of 6 gives 16, 4 of 6 gives 66), clamped to
\* 10..95, for every match count of the four table roles and the fallback.
C3_Truncated ==
    pc = "returned" =>
        LET n == Len(keywords)
            raw == (100 * MatchCount) \div n
        IN  /\ n > 0
            /\ raw * n <= 100 * MatchCount
            /\ 100 * MatchCount < (raw + 1) * n
            /\ percentage = raw
            /\ result = (IF raw < 10 THEN 10 ELSE IF raw > 95 THEN 95 ELSE raw)

\* one of the six Backend Developer keywords is matched: 16, not 17
C3_Witness ==
    /\ pc = "returned"
    /\ target_role = "Backend Developer"
    /\ Len(keywords) = 6
    /\ MatchCount = 1
    /\ result = 16

\* C6: a keyword counts as matched exactly when it is a substring of at
\* least one lower-cased skill name; the keyword list is the table entry of
\* a table role and (git, api) for every other role; so Figma and User
\* Research give 50 for UI/UX Designer, and a role outside the table gives 50
\* when git is matched and api is not.
C6_KeywordMatching ==
    pc = "returned" =>
        /\ target_role \in {"Backend Developer", "Frontend Developer",
                            "AI Engineer", "UI/UX Designer"}
              => keywords = relevant_keywords[target_role]
        /\ target_role = "UI/UX Designer"
              => keywords = <<"figma", "design", "user research", "prototyping">>
        /\ target_role \notin {"Backend Developer", "Frontend Developer",
                               "AI Engineer", "UI/UX Designer"}
              => keywords = <<"git", "api">>
        /\ \A i \in 1..Len(keywords) :
              (\E j \in 1..Len(matches) : matches[j] = keywords[i])
                  <=> KeywordMatched(keywords[i])
        /\ Len(matches) = MatchCount
        /\ (/\ target_role = "UI/UX Designer"
            /\ user_skills = <<Skill("Figma"), Skill("User Research")>>)
              => result = 50
        /\ (/\ target_role = "Data Scientist"
            /\ KeywordMatched("git")
            /\ ~KeywordMatched("api"))
              => result = 50

\* the estimator returned for Figma and User Research as a UI/UX Designer
C6_Witness ==
    /\ pc = "returned"
    /\ target_role = "UI/UX Designer"
    /\ user_skills = <<Skill("Figma"), Skill("User Research")>>
    /\ Len(matches) = 2
    /\ result = 50

\* the skills of the list, as a set
SkillSet == {user_skills[i] : i \in 1..Len(user_skills)}

\* every keyword of the list in use is matched
AllMatched == \A i \in 1..Len(keywords) : KeywordMatched(keywords[i])

\* C10: for every role, a call with more skills never returns less, a call
\* with the same skills in another order or with repetitions returns the
\* same; 95 is returned only when every keyword of the role's list is
\* matched, and 10 whenever none is.
C10_MonotoneOrderInsensitive ==
    [][pc' = "returned" =>
          /\ (result = 95 => AllMatched)'
          /\ (MatchCount = 0 => result = 10)'
          /\ (pc = "returned" /\ target_role' = target_role) =>
                /\ SkillSet \subseteq SkillSet' => result' >= result
                /\ SkillSet = SkillSet' => result' = result]_vars

\* the estimator returned for a list that repeats a skill
C10_Witness ==
    /\ pc = "returned"
    /\ target_role = "Data Scientist"
    /\ user_skills = <<Skill("Git"), Skill("Cooking"), Skill("Git")>>
    /\ result = 50

====
